---- MODULE Spec2Model ----
(***************************************************************************)
(* Verification model of adevinta/go-k8s-toolkit.                          *)
(*                                                                         *)
(*   SpecClient : the read-only client decorator (client_readonly.go)      *)
(*   SpecParse  : the multi-document object parser (ParseKubernetesObjects)*)
(*                                                                         *)
(* Go strings and byte slices are modelled as sequences of one-character   *)
(* strings where their bytes matter, and as tuples <<arg, format>> for the *)
(* result of fmt.Errorf("%s ...", arg).                                    *)
(***************************************************************************)
EXTENDS Integers, Sequences, FiniteSets, TLC

(***************************************************************************)
(* Bounds of the model.                                                    *)
(***************************************************************************)
\* longest list of options handed to ReadOnlyClient
MaxMutators == 2
\* most blocks of lines a parsed stream is made of
MaxBlocks == 3

(***************************************************************************)
(* Values shared by the client model.                                      *)
(***************************************************************************)
\* a Go nil reference: no delegate, a nil receiver
NilRef == [ref |-> "nil"]
\* the reference to the delegate handed to ReadOnlyClient
FakeRef == [ref |-> "fake"]

\* objects the calls are about
Objs == {"ns1", "ns2"}
\* sub-resource names asked of SubResource
Resources == {"status", "scale"}

\* a nil error
NoError == [kind |-> "nil"]
\* errors.New(text)
ErrorsNew(text) == [kind |-> "error", msg |-> <<text>>]
\* fmt.Errorf("%s" ++ format, arg)
Errorf(arg, format) == [kind |-> "error", msg |-> <<arg, format>>]

WriteOps == {"Create", "Update", "Patch", "Delete", "DeleteAllOf"}
SubWriteOps == {"Create", "Update", "Patch"}
ReadOps == {"Get", "List"}
IntrospectionOps == {"RESTMapper", "Scheme", "GroupVersionKindFor", "IsObjectNamespaced"}
SubReadOps == {"Get", "List"}

(***************************************************************************)
(* The capability policy: the newError field, a func(method string) error. *)
(* A function value is modelled by the name of its body.                   *)
(***************************************************************************)
\* func(method) { return fmt.Errorf("%s not allowed in read-only mode", method) }
ReadOnlyError == "readOnlyError"
\* func(string) { return nil }
NilError == "nilError"
\* a builder supplied by the caller through WithErrorBuilder
CallerError == "callerError"

Policies == {ReadOnlyError, NilError, CallerError}

\* calling the function value newError(method)
NewError(newError, method) ==
  CASE newError = ReadOnlyError -> Errorf(method, " not allowed in read-only mode")
    [] newError = NilError -> NoError
    [] newError = CallerError -> Errorf(method, " refused by caller policy")

\* the mutators: each is a func(c *readOnlyClient) that assigns c.newError
WithErrorBuilder(newError) == [assign |-> newError]
WithNoError == WithErrorBuilder(NilError)
WithError == WithErrorBuilder(ReadOnlyError)

Mutators == {WithError, WithNoError, WithErrorBuilder(CallerError)}

\* m(c)
ApplyMutator(m, c) == [c EXCEPT !.newError = m.assign]

\* ApplyMutators with a fault seeded: only the first option is applied
ApplyFirstMutatorOnly(ms, c) ==
  IF ms = <<>> THEN c ELSE ApplyMutator(Head(ms), c)

RECURSIVE ApplyMutators(_, _)
\* for _, m := range mutators { m(c) }
ApplyMutators(ms, c) ==
  IF ms = <<>> THEN c ELSE ApplyMutators(Tail(ms), ApplyMutator(Head(ms), c))

\* ReadOnlyClient(client, mutators...)
ReadOnlyClient(client, ms) ==
  ApplyMutators(ms, [Client |-> client, newError |-> ReadOnlyError])

(***************************************************************************)
(* The delegate: a client.Client behind the decorator.  Its store maps     *)
(* each object to absent / present / updated; every operation returns the  *)
(* result, the new store and the invocation it logs.                       *)
(***************************************************************************)
NotFound == [kind |-> "error", msg |-> <<"not found">>]
AlreadyExists == [kind |-> "error", msg |-> <<"already exists">>]

Invocation(target, op, arg) == [target |-> target, op |-> op, arg |-> arg]

FakeWrite(store, op, obj) ==
  CASE op = "Create" ->
         IF store[obj] = "absent"
         THEN [result |-> NoError, store |-> [store EXCEPT ![obj] = "present"]]
         ELSE [result |-> AlreadyExists, store |-> store]
    [] op \in {"Update", "Patch"} ->
         IF store[obj] = "absent"
         THEN [result |-> NotFound, store |-> store]
         ELSE [result |-> NoError, store |-> [store EXCEPT ![obj] = "updated"]]
    [] op = "Delete" ->
         IF store[obj] = "absent"
         THEN [result |-> NotFound, store |-> store]
         ELSE [result |-> NoError, store |-> [store EXCEPT ![obj] = "absent"]]
    [] op = "DeleteAllOf" ->
         [result |-> NoError, store |-> [o \in Objs |-> "absent"]]

FakeRead(store, op, obj) ==
  CASE op = "Get" ->
         IF store[obj] = "absent" THEN NotFound
         ELSE [kind |-> "object", name |-> obj, state |-> store[obj]]
    [] op = "List" ->
         [kind |-> "list", items |-> {o \in Objs : store[o] # "absent"},
          states |-> [o \in Objs |-> store[o]]]
    [] op \in IntrospectionOps ->
         [kind |-> "meta", op |-> op, of |-> obj]

\* the delegate's handle for a sub-resource
FakeSubResource(resource) == [ref |-> "fake", resource |-> resource]

\* a write through the delegate's sub-resource handle
FakeSubWrite(store, sub, op, obj) ==
  IF store[obj] = "absent"
  THEN [result |-> NotFound, store |-> store]
  ELSE [result |-> NoError, store |-> [store EXCEPT ![obj] = "updated"]]

\* a read through the delegate's sub-resource handle
FakeSubRead(store, sub, op, obj) ==
  IF store[obj] = "absent" THEN NotFound
  ELSE [kind |-> "subobject", resource |-> sub.resource, op |-> op,
        name |-> obj, state |-> store[obj]]

(***************************************************************************)
(* What one call did: how it ended, what it returned, the delegate         *)
(* operations it invoked, and the delegate's store after it.               *)
(***************************************************************************)
Returned(result, invoked, store) ==
  [outcome |-> "returned", result |-> result, invoked |-> invoked, store |-> store]
\* a nil-pointer or nil-interface dereference
Panicked(store) ==
  [outcome |-> "panic", result |-> NoError, invoked |-> <<>>, store |-> store]

(***************************************************************************)
(* readOnlyClient: the write methods.  None reads r.Client.                *)
(***************************************************************************)
ClientCreate(r, store, obj) ==
  IF r = NilRef THEN Returned(ErrorsNew("client is nil"), <<>>, store)
  ELSE Returned(NewError(r.newError, "Create"), <<>>, store)

ClientUpdate(r, store, obj) ==
  IF r = NilRef THEN Returned(ErrorsNew("client is nil"), <<>>, store)
  ELSE Returned(NewError(r.newError, "Update"), <<>>, store)

ClientPatch(r, store, obj) ==
  IF r = NilRef THEN Returned(ErrorsNew("client is nil"), <<>>, store)
  ELSE Returned(NewError(r.newError, "Patch"), <<>>, store)

\* ClientDelete with a fault seeded: the call is forwarded to the delegate
ClientDeleteForwarded(r, store, obj) ==
  IF r = NilRef THEN Returned(ErrorsNew("client is nil"), <<>>, store)
  ELSE IF r.Client = NilRef THEN Panicked(store)
  ELSE LET did == FakeWrite(store, "Delete", obj)
       IN  Returned(did.result, <<Invocation(r.Client, "Delete", obj)>>, did.store)

ClientDelete(r, store, obj) ==
  IF r = NilRef THEN Returned(ErrorsNew("client is nil"), <<>>, store)
  ELSE Returned(NewError(r.newError, "Delete"), <<>>, store)

\* ClientDeleteAllOf with a fault seeded: the name of Delete is handed to the policy
ClientDeleteAllOfNamedDelete(r, store, obj) ==
  IF r = NilRef THEN Returned(ErrorsNew("client is nil"), <<>>, store)
  ELSE Returned(NewError(r.newError, "Delete"), <<>>, store)

ClientDeleteAllOf(r, store, obj) ==
  IF r = NilRef THEN Returned(ErrorsNew("client is nil"), <<>>, store)
  ELSE Returned(NewError(r.newError, "DeleteAllOf"), <<>>, store)

(***************************************************************************)
(* readOnlyClient: Get, List, RESTMapper, Scheme, GroupVersionKindFor and  *)
(* IsObjectNamespaced are the methods of the embedded client.Client,       *)
(* promoted: r.Op(args) is r.Client.Op(args).  A nil r or a nil r.Client   *)
(* is dereferenced and panics.                                             *)
(***************************************************************************)
\* ClientRead with a fault seeded: the delegate's error is swallowed
ClientReadDropsError(r, store, op, obj) ==
  IF r = NilRef THEN Panicked(store)
  ELSE IF r.Client = NilRef THEN Panicked(store)
  ELSE LET got == FakeRead(store, op, obj)
       IN  Returned(IF got.kind = "error" THEN NoError ELSE got,
                    <<Invocation(r.Client, op, obj)>>, store)

ClientRead(r, store, op, obj) ==
  IF r = NilRef THEN Panicked(store)
  ELSE IF r.Client = NilRef THEN Panicked(store)
  ELSE Returned(FakeRead(store, op, obj), <<Invocation(r.Client, op, obj)>>, store)

(***************************************************************************)
(* readOnlyClient.SubResource and Status.  The result carries the new      *)
(* handle in its result field.                                             *)
(***************************************************************************)
\* SubResource with a fault seeded: the handle gets the default policy, not the client's
SubResourceDefaultPolicy(r, store, resource) ==
  LET hasDelegate == IF r = NilRef THEN FALSE ELSE r.Client # NilRef
      subResourceClient == IF hasDelegate THEN FakeSubResource(resource) ELSE NilRef
      invoked == IF hasDelegate THEN <<Invocation(r.Client, "SubResource", resource)>>
                 ELSE <<>>
  IN  IF r = NilRef THEN Panicked(store)
      ELSE Returned([kind |-> "handle",
                     handle |-> [SubResourceClient |-> subResourceClient,
                                 newError |-> ReadOnlyError]],
                    invoked, store)

\* SubResource with a fault seeded: r.Client.SubResource is called without the nil check
SubResourceUnguarded(r, store, resource) ==
  IF r = NilRef THEN Panicked(store)
  ELSE IF r.Client = NilRef THEN Panicked(store)
  ELSE Returned([kind |-> "handle",
                 handle |-> [SubResourceClient |-> FakeSubResource(resource),
                             newError |-> r.newError]],
                <<Invocation(r.Client, "SubResource", resource)>>, store)

SubResource(r, store, resource) ==
  LET hasDelegate == IF r = NilRef THEN FALSE ELSE r.Client # NilRef
      subResourceClient == IF hasDelegate THEN FakeSubResource(resource) ELSE NilRef
      invoked == IF hasDelegate THEN <<Invocation(r.Client, "SubResource", resource)>>
                 ELSE <<>>
  IN  IF r = NilRef THEN Panicked(store)   \* r.newError on a nil r
      ELSE Returned([kind |-> "handle",
                     handle |-> [SubResourceClient |-> subResourceClient,
                                 newError |-> r.newError]],
                    invoked, store)

Status(r, store) == SubResource(r, store, "status")

(***************************************************************************)
(* readOnlySubresourceClient: the write methods.  Each of the three hands  *)
(* the literal "Update" to newError.                                       *)
(***************************************************************************)
SubUpdate(r, store, obj) ==
  IF r = NilRef THEN Returned(ErrorsNew("status client is nil"), <<>>, store)
  ELSE Returned(NewError(r.newError, "Update"), <<>>, store)

SubCreate(r, store, obj) ==
  IF r = NilRef THEN Returned(ErrorsNew("status client is nil"), <<>>, store)
  ELSE Returned(NewError(r.newError, "Update"), <<>>, store)

SubPatch(r, store, obj) ==
  IF r = NilRef THEN Returned(ErrorsNew("status client is nil"), <<>>, store)
  ELSE Returned(NewError(r.newError, "Update"), <<>>, store)

\* readOnlySubresourceClient: the reads are the promoted methods of the
\* embedded client.SubResourceClient.
SubRead(r, store, op, obj) ==
  IF r = NilRef THEN Panicked(store)
  ELSE IF r.SubResourceClient = NilRef THEN Panicked(store)
  ELSE Returned(FakeSubRead(store, r.SubResourceClient, op, obj),
                <<Invocation(r.SubResourceClient, op, obj)>>, store)

(***************************************************************************)
(* Byte strings.  A []byte or string whose bytes matter is a sequence of   *)
(* one-character strings; LF is the line feed.                             *)
(***************************************************************************)
LF == "\n"

\* strings.HasPrefix / bytes.HasPrefix
HasPrefix(str, prefix) ==
  /\ Len(str) >= Len(prefix)
  /\ SubSeq(str, 1, Len(prefix)) = prefix

\* strings.TrimPrefix: the prefix is removed once, if it is there
TrimPrefix(str, prefix) ==
  IF HasPrefix(str, prefix) THEN SubSeq(str, Len(prefix) + 1, Len(str)) ELSE str

RECURSIVE TrimLeft(_, _)
\* bytes.TrimLeft(str, cutset): every leading byte that is in cutset is removed
TrimLeft(str, cutset) ==
  IF str # <<>> /\ (\E i \in 1..Len(cutset) : cutset[i] = str[1])
  THEN TrimLeft(Tail(str), cutset)
  ELSE str

RECURSIVE TrimRight(_, _)
TrimRight(str, cutset) ==
  IF str # <<>> /\ (\E i \in 1..Len(cutset) : cutset[i] = str[Len(str)])
  THEN TrimRight(SubSeq(str, 1, Len(str) - 1), cutset)
  ELSE str

\* strings.TrimSpace
TrimSpace(str) == TrimRight(TrimLeft(str, <<" ", LF>>), <<" ", LF>>)

RECURSIVE SplitFrom(_, _, _)
\* bytes.Split(str, sep) for a one-byte sep: piece is the piece being read
SplitFrom(piece, str, sep) ==
  IF str = <<>> THEN <<piece>>
  ELSE IF Head(str) = sep THEN <<piece>> \o SplitFrom(<<>>, Tail(str), sep)
  ELSE SplitFrom(Append(piece, Head(str)), Tail(str), sep)

Split(str, sep) == SplitFrom(<<>>, str, sep)

(***************************************************************************)
(* The lines a stream is made of.  "v" stands for the line apiVersion: v1, *)
(* "A" and "B" for the lines kind: A and kind: B, "!" for text that is no  *)
(* YAML mapping.                                                           *)
(***************************************************************************)
SepLine == <<"-", "-", "-">>
BadSepLine == <<"-", "-", "-", "A">>
BlankLine == <<>>
CommentLine == <<"#">>
IndentedCommentLine == <<" ", "#">>
DeepCommentLine == <<" ", " ", "#">>
VersionLine == <<"v">>
DashKeyLine == <<"-", "v">>
BadLine == <<"!">>
DashBadLine == <<"-", "!">>
KindLine(k) == <<k>>
Kinds == {"A", "B"}
\* "l" stands for a line that sets one more field of the object (a label)
LabelLine == <<"l">>
\* "n" and "m" stand for the lines that set metadata.name and
\* metadata.namespace, "t" for the line creationTimestamp: null
NameLine == <<"n">>
NamespaceLine == <<"m">>
TimestampLine == <<"t">>
\* the lines that set a field other than apiVersion and kind, in the order
\* of their keys
FieldLines == <<TimestampLine, LabelLine, NameLine, NamespaceLine>>
IsFieldLine(line) == \E i \in 1..Len(FieldLines) : FieldLines[i] = line

\* the blocks of lines the streams are built from
Blocks ==
  { <<SepLine>>, <<BadSepLine>>, <<BlankLine>>, <<CommentLine>>,
    <<IndentedCommentLine>>, <<DeepCommentLine>>,
    <<VersionLine, KindLine("A")>>, <<VersionLine, KindLine("B")>>,
    <<VersionLine, KindLine("A"), LabelLine>>,
    <<DashKeyLine, KindLine("A")>>, <<BadLine>>, <<DashBadLine>> }

RECURSIVE Flatten(_)
Flatten(blocks) == IF blocks = <<>> THEN <<>> ELSE Head(blocks) \o Flatten(Tail(blocks))

(***************************************************************************)
(* kubeyaml.YAMLReader over a bufio.Reader.  The reader's position is the  *)
(* sequence of lines not read yet; its line reader hands out each line     *)
(* with a line feed appended, and a lone line feed with io.EOF at the end. *)
(***************************************************************************)
NoErr == [kind |-> "nil"]
EOF == [kind |-> "io.EOF"]
YAMLSyntaxError == [kind |-> "YAMLSyntaxError"]

RECURSIVE YAMLReadFrom(_, _)
\* YAMLReader.Read with `buffer` collected so far
YAMLReadFrom(buffer, lines) ==
  IF lines = <<>>
  THEN IF buffer # <<>>
       THEN [data |-> buffer, err |-> NoErr, rest |-> lines]
       ELSE [data |-> <<>>, err |-> EOF, rest |-> lines]
  ELSE LET line == Append(Head(lines), LF)
       IN  IF HasPrefix(line, SepLine)
           THEN LET trimmed == TrimSpace(SubSeq(line, 4, Len(line)))
                IN  IF trimmed # <<>> /\ trimmed[1] # "#"
                    THEN [data |-> <<>>, err |-> YAMLSyntaxError, rest |-> Tail(lines)]
                    ELSE IF buffer # <<>>
                    THEN [data |-> buffer, err |-> NoErr, rest |-> Tail(lines)]
                    ELSE YAMLReadFrom(buffer \o line, Tail(lines))
           ELSE YAMLReadFrom(buffer \o line, Tail(lines))

\* kubereader.Read()
YAMLRead(lines) == YAMLReadFrom(<<>>, lines)

(***************************************************************************)
(* commentOnly                                                             *)
(***************************************************************************)
commentOnly(d) ==
  \A i \in 1..Len(Split(d, LF)) :
    LET line == TrimPrefix(Split(d, LF)[i], <<" ">>)
    IN  ~(line # <<>> /\ ~HasPrefix(line, <<"#">>))

(***************************************************************************)
(* Objects and the universal deserializer.                                 *)
(***************************************************************************)
\* a nil runtime.Object
NilObj == [type |-> "nil"]
\* &unstructured.Unstructured{}
EmptyUnstructured ==
  [type |-> "unstructured", gotype |-> "", apiVersion |-> "", kind |-> "", fields |-> {}]
\* the zero value of the registered Go type of kind g, such as &v1.Pod{}
EmptyTyped(g) ==
  [type |-> "typed", gotype |-> g, apiVersion |-> "", kind |-> "", fields |-> {}]

\* as.DeepCopyObject()
DeepCopyObject(o) == o

RECURSIVE LastKind(_)
\* the value of the last kind line among ls ("" if none)
LastKind(ls) ==
  IF ls = <<>> THEN ""
  ELSE IF \E k \in Kinds : ls[Len(ls)] = KindLine(k)
  THEN ls[Len(ls)][1]
  ELSE LastKind(SubSeq(ls, 1, Len(ls) - 1))

\* scheme.Codecs.UniversalDeserializer().Decode(data, nil, into): the YAML is
\* read as one mapping; comments and blank lines do not count, unknown keys are
\* kept or dropped without error.
\*  - into nil: a kind and an apiVersion are required; the object is new.
\*  - into unstructured: a kind is required; the content of into is replaced
\*    by the document and into is returned.
\*  - into typed: a missing kind or apiVersion defaults to the type of into;
\*    if the kind is the one of into's type the document is unmarshalled into
\*    into, which keeps every field the document does not set, and into is
\*    returned; otherwise a new object of the document's kind is returned.
\* `reused` tells whether the object returned is into itself.
Decode(data, into) ==
  LET all == Split(data, LF)
      content == SelectSeq([i \in 1..Len(all) |-> TrimLeft(all[i], <<" ">>)],
                           LAMBDA l : l # <<>> /\ l[1] # "#")
      wellFormed == \A i \in 1..Len(content) :
                      \/ content[i] \in {VersionLine, DashKeyLine}
                      \/ IsFieldLine(content[i])
                      \/ \E k \in Kinds : content[i] = KindLine(k)
      kind == LastKind(content)
      apiVersion == IF \E i \in 1..Len(content) : content[i] = VersionLine
                    THEN "v1" ELSE ""
      fields == {content[i] : i \in {j \in 1..Len(content) : IsFieldLine(content[j])}}
      type == IF into = NilObj THEN "typed" ELSE into.type
      fresh == [type |-> type, gotype |-> IF type = "typed" THEN kind ELSE "",
                apiVersion |-> apiVersion, kind |-> kind, fields |-> fields]
      failed(why) == [obj |-> NilObj, err |-> [kind |-> why], reused |-> FALSE]
  IN  IF ~wellFormed THEN failed("yaml error")
      ELSE IF into = NilObj
      THEN IF kind = "" THEN failed("missing kind")
           ELSE IF apiVersion = "" THEN failed("missing version")
           ELSE [obj |-> fresh, err |-> NoErr, reused |-> FALSE]
      ELSE IF type = "unstructured"
      THEN IF kind = "" THEN failed("missing kind")
           ELSE [obj |-> fresh, err |-> NoErr, reused |-> TRUE]
      ELSE IF kind = "" \/ kind = into.gotype
      THEN [obj |-> [type |-> "typed", gotype |-> into.gotype,
                     apiVersion |-> IF apiVersion = "" THEN into.apiVersion ELSE apiVersion,
                     kind |-> IF kind = "" THEN into.kind ELSE kind,
                     fields |-> into.fields \cup fields],
            err |-> NoErr, reused |-> TRUE]
      ELSE [obj |-> fresh, err |-> NoErr, reused |-> FALSE]

\* &ParseError{Data: data, Err: err}
ParseError(data, err) == [kind |-> "ParseError", Data |-> data, Err |-> err]

(***************************************************************************)
(* State of the client model.                                              *)
(***************************************************************************)
VARIABLES
  mutators,    \* the options ReadOnlyClient was called with
  roClient,    \* the *readOnlyClient it returned
  fakeStore,   \* the objects stored in the delegate
  initStore,   \* the delegate's objects when the client was built
  handles,     \* the handles obtained from Status() and SubResource(name)
  last         \* the last call made and what it did

clientVars == <<mutators, roClient, fakeStore, initStore, handles, last>>

(***************************************************************************)
(* State of the parser model: one call of ParseKubernetesObjects(r, as).   *)
(***************************************************************************)
VARIABLES
  input,       \* the lines of the stream r, as given
  proto,       \* the prototype the caller passed as `as`
  rest,        \* the lines kubereader has not read yet
  as,          \* the local variable `as`
  objects,     \* the local variable `objects`
  chunks,      \* the chunks kubereader.Read has returned so far, in order,
               \* each with whether the loop skipped it
  decoded,     \* the data handed to Decode so far, in order
  pc,          \* "loop" inside the for loop, "done" once returned
  ret,         \* the returned pair [objects, err] once pc = "done"
  heap,        \* the objects allocated so far; an address is an index, the
               \* caller's prototype, if any, is at PrototypeAddr
  asAddr,      \* the address `as` points to, NilAddr for nil
  objAddrs,    \* the addresses the elements of `objects` point to
  targets,     \* the value of the target handed to each Decode, in order
  produced     \* the value of each object when it was appended, in order

parseVars == <<input, proto, rest, as, objects, chunks, decoded, pc, ret,
               heap, asAddr, objAddrs, targets, produced>>

(***************************************************************************)
(* State of the serialiser model: one call of SerialiseObjects(scheme, w,  *)
(* objects...), the stream parsed back, and the result serialised again.   *)
(***************************************************************************)
VARIABLES
  registry,    \* the Go types the scheme passed by the caller knows
  given,       \* the objects the caller passed to the first call
  sObjects,    \* the parameter `objects` of the call under way
  sOut,        \* the lines written to w so far
  sIdx,        \* the number of iterations of the loop completed
  sPc,         \* "loop" inside the for loop, "returned", "parsed"
  sErr,        \* the error returned
  sLog,        \* what the call under way did: delimiters written, objects
               \* encoded, in order
  sRound,      \* 1 for the caller's list, 2 for the list parsed back
  parsed       \* what ParseUnstructured returned for each stream written

serialVars == <<registry, given, sObjects, sOut, sIdx, sPc, sErr, sLog,
                sRound, parsed>>

(***************************************************************************)
(* State of the conversion model: one call of ToUnstructured(scheme,       *)
(* objects).                                                               *)
(***************************************************************************)
VARIABLES
  cScheme,     \* the Go types the scheme passed by the caller knows
  cHeap,       \* the objects allocated so far; a pointer is an index
  cInput,      \* the parameter `objects`: pointers
  cResult,     \* the local variable `unstructuredObjects`: pointers
  cPc,         \* "loop" inside the for loop, "done" once returned
  cRet         \* the returned pair once cPc = "done"

convVars == <<cScheme, cHeap, cInput, cResult, cPc, cRet>>

(***************************************************************************)
(* State of the configuration model: the environment, the file system, a   *)
(* ClientConfigBuilder and the last call made.                             *)
(***************************************************************************)
VARIABLES
  env,           \* the environment variables KUBECONFIG and HOME
  fs,            \* system.DefaultFileSystem: the kubeconfig files by path
  tokenReadable, \* whether the token file next to the kubeconfig is readable
  builder,       \* ClientConfigLoadingRules.ExplicitPath,
                 \* ConfigOverrides.ClusterInfo.Server and DefaultServerURL
  forced,        \* the URL last given to WithServerURL
  kLast          \* the last call of KubeConfigPath or Build and its result

configVars == <<env, fs, tokenReadable, builder, forced, kLast>>

(***************************************************************************)
(* State of the cluster model: one call of KinD.Start(name, version).      *)
(***************************************************************************)
VARIABLES
  stBinary,    \* whether the file at k.path() exists
  stClusters,  \* the identities of the clusters that exist
  stInit,      \* stBinary and stClusters when Start was called
  stArgs,      \* the arguments name and version
  stPc,        \* "start", "exists", "download", "poll", "done"
  stRet,       \* the returned pair once stPc = "done"
  stLog        \* the installations, creations and polls made, in order

startVars == <<stBinary, stClusters, stInit, stArgs, stPc, stRet, stLog>>

\* the variables of the models other than the client's and the parser's
otherVars == <<serialVars, convVars, configVars, startVars>>

vars == <<clientVars, parseVars, otherVars>>

\* no call of the parser is under way
ParseIdle ==
  /\ input = <<>> /\ proto = NilObj /\ rest = <<>> /\ as = NilObj
  /\ objects = <<>> /\ chunks = <<>> /\ decoded = <<>>
  /\ pc = "idle" /\ ret = [objects |-> <<>>, err |-> NoErr]
  /\ heap = <<>> /\ asAddr = 0 /\ objAddrs = <<>>
  /\ targets = <<>> /\ produced = <<>>

\* no call of the serialiser is under way
SerialIdle ==
  /\ registry = {} /\ given = <<>> /\ sObjects = <<>> /\ sOut = <<>>
  /\ sIdx = 0 /\ sPc = "idle" /\ sErr = NoErr /\ sLog = <<>>
  /\ sRound = 0 /\ parsed = <<>>

\* a returned pair; `none` tells a nil list from an empty one
Pair(list, none, err) == [objects |-> list, none |-> none, err |-> err]

\* no call of the conversion is under way
ConvIdle ==
  /\ cScheme = {} /\ cHeap = <<>> /\ cInput = <<>> /\ cResult = <<>>
  /\ cPc = "idle" /\ cRet = Pair(<<>>, TRUE, NoErr)

\* paths are sequences of segments, the empty path is the empty string
NoPath == <<>>
NoURL == ""
NilConfig == [Host |-> NoURL, BearerToken |-> ""]
NoConfigCall ==
  [op |-> "none", arg |-> NoPath, path |-> NoPath, cfg |-> NilConfig, err |-> NoErr]

\* no builder exists and nothing was called
ConfigIdle ==
  /\ env = [KUBECONFIG |-> NoPath, HOME |-> NoPath]
  /\ fs = <<>> /\ tokenReadable = FALSE
  /\ builder = [ExplicitPath |-> NoPath, Server |-> NoURL, DefaultServerURL |-> NoURL]
  /\ forced = NoURL /\ kLast = NoConfigCall

\* a *KinDCluster for the arguments, or nil
Handle(args, isNil) == [nil |-> isNil, name |-> args.name, version |-> args.version]
NoArgs == [name |-> <<>>, version |-> <<>>]

\* no call of Start is under way
StartIdle ==
  /\ stBinary = FALSE /\ stClusters = {}
  /\ stInit = [binary |-> FALSE, clusters |-> {}]
  /\ stArgs = NoArgs /\ stPc = "idle"
  /\ stRet = [handle |-> Handle(NoArgs, TRUE), err |-> NoErr] /\ stLog = <<>>

OthersIdle == SerialIdle /\ ConvIdle /\ ConfigIdle /\ StartIdle

RECURSIVE SeqsUpTo(_, _)
\* the sequences over S of length at most n
SeqsUpTo(S, n) ==
  IF n = 0 THEN {<<>>}
  ELSE LET shorter == SeqsUpTo(S, n - 1)
       IN  shorter \cup {Append(q, x) : q \in shorter, x \in S}

NoCall ==
  [recv |-> "none", op |-> "none", arg |-> "none", handle |-> NilRef,
   outcome |-> "none", result |-> NoError, invoked |-> <<>>]

\* the record of a call on receiver kind recv (through handle h, if any)
Call(recv, op, arg, h, did) ==
  [recv |-> recv, op |-> op, arg |-> arg, handle |-> h,
   outcome |-> did.outcome, result |-> did.result, invoked |-> did.invoked]

InitClient ==
  /\ ParseIdle /\ OthersIdle
  /\ mutators \in SeqsUpTo(Mutators, MaxMutators)
  /\ \E client \in {NilRef, FakeRef} : roClient = ReadOnlyClient(client, mutators)
  /\ fakeStore \in [Objs -> {"absent", "present"}]
  /\ initStore = fakeStore
  /\ handles = {}
  /\ last = NoCall

\* a call of one of the client's methods: record it, keep the delegate's store
\* as the call left it
ClientCalls(op, arg, did) ==
  /\ last' = Call("client", op, arg, NilRef, did)
  /\ fakeStore' = did.store
  /\ UNCHANGED <<mutators, roClient, initStore, handles, parseVars, otherVars>>

CallCreate == \E obj \in Objs : ClientCalls("Create", obj, ClientCreate(roClient, fakeStore, obj))
CallUpdate == \E obj \in Objs : ClientCalls("Update", obj, ClientUpdate(roClient, fakeStore, obj))
CallPatch == \E obj \in Objs : ClientCalls("Patch", obj, ClientPatch(roClient, fakeStore, obj))
CallDelete == \E obj \in Objs : ClientCalls("Delete", obj, ClientDelete(roClient, fakeStore, obj))
CallDeleteAllOf ==
  \E obj \in Objs : ClientCalls("DeleteAllOf", obj, ClientDeleteAllOf(roClient, fakeStore, obj))

CallRead ==
  \E op \in ReadOps \cup IntrospectionOps, obj \in Objs :
    ClientCalls(op, obj, ClientRead(roClient, fakeStore, op, obj))

\* a call that returns a handle: the caller keeps the handle
HandleCalls(op, resource, did) ==
  /\ last' = Call("client", op, resource, NilRef, did)
  /\ fakeStore' = did.store
  /\ handles' = IF did.outcome = "returned"
                THEN handles \cup {[via |-> op, resource |-> resource,
                                    handle |-> did.result.handle]}
                ELSE handles
  /\ UNCHANGED <<mutators, roClient, initStore, parseVars, otherVars>>

CallSubResource ==
  \E resource \in Resources :
    HandleCalls("SubResource", resource, SubResource(roClient, fakeStore, resource))

CallStatus == HandleCalls("Status", "status", Status(roClient, fakeStore))

\* a call of one of a handle's methods
SubCalls(h, op, arg, did) ==
  /\ last' = Call("handle", op, arg, h, did)
  /\ fakeStore' = did.store
  /\ UNCHANGED <<mutators, roClient, initStore, handles, parseVars, otherVars>>

CallSubCreate ==
  \E h \in handles, obj \in Objs : SubCalls(h, "Create", obj, SubCreate(h.handle, fakeStore, obj))
CallSubUpdate ==
  \E h \in handles, obj \in Objs : SubCalls(h, "Update", obj, SubUpdate(h.handle, fakeStore, obj))
CallSubPatch ==
  \E h \in handles, obj \in Objs : SubCalls(h, "Patch", obj, SubPatch(h.handle, fakeStore, obj))
CallSubRead ==
  \E h \in handles, op \in SubReadOps, obj \in Objs :
    SubCalls(h, op, obj, SubRead(h.handle, fakeStore, op, obj))

\* a method called on a nil *readOnlyClient (the zero value of the pointer
\* type), with zero-valued arguments
ZeroClientCall ==
  \E op \in WriteOps \cup ReadOps \cup IntrospectionOps \cup {"SubResource", "Status"} :
    LET obj == CHOOSE o \in Objs : TRUE
        did == CASE op = "Create" -> ClientCreate(NilRef, fakeStore, obj)
                 [] op = "Update" -> ClientUpdate(NilRef, fakeStore, obj)
                 [] op = "Patch" -> ClientPatch(NilRef, fakeStore, obj)
                 [] op = "Delete" -> ClientDelete(NilRef, fakeStore, obj)
                 [] op = "DeleteAllOf" -> ClientDeleteAllOf(NilRef, fakeStore, obj)
                 [] op = "SubResource" -> SubResource(NilRef, fakeStore, "status")
                 [] op = "Status" -> Status(NilRef, fakeStore)
                 [] OTHER -> ClientRead(NilRef, fakeStore, op, obj)
    IN  /\ last' = Call("zero client", op, "zero", NilRef, did)
        /\ fakeStore' = did.store
        /\ UNCHANGED <<mutators, roClient, initStore, handles, parseVars, otherVars>>

\* a method called on a nil *readOnlySubresourceClient, with zero-valued
\* arguments
ZeroHandleCall ==
  \E op \in SubWriteOps \cup SubReadOps :
    LET obj == CHOOSE o \in Objs : TRUE
        did == CASE op = "Create" -> SubCreate(NilRef, fakeStore, obj)
                 [] op = "Update" -> SubUpdate(NilRef, fakeStore, obj)
                 [] op = "Patch" -> SubPatch(NilRef, fakeStore, obj)
                 [] OTHER -> SubRead(NilRef, fakeStore, op, obj)
    IN  /\ last' = Call("zero handle", op, "zero", NilRef, did)
        /\ fakeStore' = did.store
        /\ UNCHANGED <<mutators, roClient, initStore, handles, parseVars, otherVars>>

NextClient ==
  \/ CallCreate \/ CallUpdate \/ CallPatch \/ CallDelete \/ CallDeleteAllOf
  \/ CallRead
  \/ CallSubResource \/ CallStatus
  \/ CallSubCreate \/ CallSubUpdate \/ CallSubPatch \/ CallSubRead
  \/ ZeroClientCall \/ ZeroHandleCall

SpecClient == InitClient /\ [][NextClient]_vars

(***************************************************************************)
(* ParseKubernetesObjects: one action per way an iteration of the for loop *)
(* can go.                                                                 *)
(***************************************************************************)
\* no client has been built
ClientIdle ==
  /\ mutators = <<>> /\ roClient = NilRef
  /\ fakeStore = [o \in Objs |-> "absent"] /\ initStore = fakeStore
  /\ handles = {} /\ last = NoCall

NilAddr == 0
PrototypeAddr == 1
\* the objects a list of pointers refers to
Deref(h, addrs) == [i \in 1..Len(addrs) |-> h[addrs[i]]]

InitParse ==
  /\ ClientIdle /\ OthersIdle
  /\ \E blocks \in SeqsUpTo(Blocks, MaxBlocks) : input = Flatten(blocks)
  /\ proto \in {NilObj, EmptyUnstructured, EmptyTyped("A")}
  /\ rest = input
  /\ as = proto
  /\ objects = <<>>
  /\ chunks = <<>>
  /\ decoded = <<>>
  /\ pc = "loop"
  /\ ret = [objects |-> <<>>, err |-> NoErr]
  /\ heap = IF proto = NilObj THEN <<>> ELSE <<proto>>
  /\ asAddr = IF proto = NilObj THEN NilAddr ELSE PrototypeAddr
  /\ objAddrs = <<>>
  /\ targets = <<>>
  /\ produced = <<>>

\* data, err := kubereader.Read()
Read == YAMLRead(rest)
\* data = bytes.TrimLeft(data, "---")
Data == TrimLeft(Read.data, <<"-", "-", "-">>)
\* if as != nil { as = as.DeepCopyObject() }: the copy is a new object, and
\* it is a copy of what `as` points to at this iteration
Target == IF as # NilObj THEN DeepCopyObject(as) ELSE as
HeapWithTarget == IF as # NilObj THEN Append(heap, Target) ELSE heap
TargetAddr == IF as # NilObj THEN Len(HeapWithTarget) ELSE NilAddr
\* o, _, err := ...Decode(data, nil, as)
Decoded == Decode(Data, Target)
\* the decoder writes into the target when it returns it, and allocates the
\* object otherwise
HeapDecoded ==
  IF Decoded.reused THEN [HeapWithTarget EXCEPT ![TargetAddr] = Decoded.obj]
  ELSE Append(HeapWithTarget, Decoded.obj)
ObjectAddr == IF Decoded.reused THEN TargetAddr ELSE Len(HeapDecoded)

\* objects = append(objects, o)
Collect(objs, o) == Append(objs, o)

\* err == io.EOF: break, return objects, nil
ParseEOF ==
  /\ pc = "loop"
  /\ Read.err = EOF
  /\ pc' = "done"
  /\ ret' = [objects |-> objects, err |-> NoErr]
  /\ UNCHANGED <<input, proto, rest, as, objects, chunks, decoded, clientVars, otherVars>>
  /\ UNCHANGED <<heap, asAddr, objAddrs, targets, produced>>

\* err != nil, not io.EOF: return []runtime.Object{}, err
ParseReadError ==
  /\ pc = "loop"
  /\ Read.err \notin {NoErr, EOF}
  /\ pc' = "done"
  /\ rest' = Read.rest
  /\ ret' = [objects |-> <<>>, err |-> Read.err]
  /\ UNCHANGED <<input, proto, as, objects, chunks, decoded, clientVars, otherVars>>
  /\ UNCHANGED <<heap, asAddr, objAddrs, targets, produced>>

\* commentOnly(data): nothing is decoded, the loop goes on
ParseSkip ==
  /\ pc = "loop"
  /\ Read.err = NoErr
  /\ commentOnly(Data)
  /\ rest' = Read.rest
  /\ chunks' = Append(chunks, [data |-> Read.data, skipped |-> TRUE])
  /\ UNCHANGED <<input, proto, as, objects, decoded, pc, ret, clientVars, otherVars>>
  /\ UNCHANGED <<heap, asAddr, objAddrs, targets, produced>>

\* the chunk decodes: the object is appended, the loop goes on
ParseDecode ==
  /\ pc = "loop"
  /\ Read.err = NoErr
  /\ ~commentOnly(Data)
  /\ Decoded.err = NoErr
  /\ rest' = Read.rest
  /\ chunks' = Append(chunks, [data |-> Read.data, skipped |-> FALSE])
  /\ decoded' = Append(decoded, Data)
  /\ targets' = Append(targets, Target)
  /\ produced' = Append(produced, Decoded.obj)
  /\ heap' = HeapDecoded
  /\ asAddr' = TargetAddr
  /\ as' = IF TargetAddr = NilAddr THEN NilObj ELSE HeapDecoded[TargetAddr]
  /\ objAddrs' = Collect(objAddrs, ObjectAddr)
  /\ objects' = Deref(HeapDecoded, Collect(objAddrs, ObjectAddr))
  /\ UNCHANGED <<input, proto, pc, ret, clientVars, otherVars>>

\* the chunk does not decode: return []runtime.Object{}, &ParseError{data, err}
ParseDecodeError ==
  /\ pc = "loop"
  /\ Read.err = NoErr
  /\ ~commentOnly(Data)
  /\ Decoded.err # NoErr
  /\ rest' = Read.rest
  /\ chunks' = Append(chunks, [data |-> Read.data, skipped |-> FALSE])
  /\ decoded' = Append(decoded, Data)
  /\ targets' = Append(targets, Target)
  /\ heap' = HeapWithTarget
  /\ asAddr' = TargetAddr
  /\ as' = Target
  /\ pc' = "done"
  /\ ret' = [objects |-> <<>>, err |-> ParseError(Data, Decoded.err)]
  /\ UNCHANGED <<input, proto, objects, objAddrs, produced, clientVars, otherVars>>

NextParse ==
  \/ ParseEOF \/ ParseReadError \/ ParseSkip \/ ParseDecode \/ ParseDecodeError

SpecParse == InitParse /\ [][NextParse]_vars

(***************************************************************************)
(* ParseKubernetesObjects as a function of the stream and the prototype:   *)
(* the loop above, run to its return.                                      *)
(***************************************************************************)
RECURSIVE ParseLoop(_, _, _)
ParseLoop(r, a, objs) ==
  LET read == YAMLRead(r)
      data == TrimLeft(read.data, <<"-", "-", "-">>)
      target == IF a # NilObj THEN DeepCopyObject(a) ELSE a
      dec == Decode(data, target)
  IN  IF read.err = EOF THEN [objects |-> objs, err |-> NoErr]
      ELSE IF read.err # NoErr THEN [objects |-> <<>>, err |-> read.err]
      ELSE IF commentOnly(data) THEN ParseLoop(read.rest, a, objs)
      ELSE IF dec.err # NoErr
      THEN [objects |-> <<>>, err |-> ParseError(data, dec.err)]
      ELSE ParseLoop(read.rest, IF dec.reused THEN dec.obj ELSE target,
                     Collect(objs, dec.obj))

ParseKubernetesObjects(r, a) == ParseLoop(r, a, <<>>)

\* every element is the *unstructured.Unstructured the decoder was given
ParseUnstructured(r) == ParseKubernetesObjects(r, EmptyUnstructured)

(***************************************************************************)
(* SerialiseObjects(scheme, w, objects...).  The encoder is the YAML       *)
(* serialiser behind runtime.WithVersionEncoder: it asks the scheme for    *)
(* the kinds of the object, refuses the object when the scheme fails       *)
(* otherwise than by not knowing the type, and writes a typed object with  *)
(* the kind the scheme resolved.                                           *)
(***************************************************************************)
MaxObjects == 3

Typed(g, v, k, flds) ==
  [type |-> "typed", gotype |-> g, apiVersion |-> v, kind |-> k, fields |-> flds]
Unstructured(v, k, flds) ==
  [type |-> "unstructured", gotype |-> "", apiVersion |-> v, kind |-> k, fields |-> flds]

\* the objects the lists are made of: nil, typed objects with and without
\* TypeMeta, dynamic objects with and without kind and apiVersion
SerialObjs ==
  { NilObj,
    Typed("A", "", "", {}), Typed("A", "", "", {NameLine, NamespaceLine}),
    Typed("B", "", "", {NameLine}), Typed("B", "v1", "B", {NameLine}),
    Unstructured("v1", "A", {NameLine}),
    Unstructured("v1", "B", {NameLine, NamespaceLine}),
    Unstructured("v1", "", {NameLine}), Unstructured("", "A", {}) }

\* the schemes a caller may pass: one that knows both types, one that does
\* not know B
Registries == {{"A", "B"}, {"A"}}

NotRegistered == [kind |-> "not registered"]

\* scheme.ObjectKinds(obj): a dynamic object has the kind it declares and
\* must declare kind and version; a typed object has the kind its type is
\* registered with
ObjectKinds(scheme, o) ==
  IF o = NilObj THEN [gvks |-> <<>>, err |-> [kind |-> "expected pointer"]]
  ELSE IF o.type = "unstructured"
  THEN IF o.kind = "" THEN [gvks |-> <<>>, err |-> [kind |-> "missing kind"]]
       ELSE IF o.apiVersion = ""
       THEN [gvks |-> <<>>, err |-> [kind |-> "missing version"]]
       ELSE [gvks |-> <<[apiVersion |-> o.apiVersion, kind |-> o.kind]>>,
             err |-> NoErr]
  ELSE IF o.gotype \in scheme
  THEN [gvks |-> <<[apiVersion |-> "v1", kind |-> o.gotype]>>, err |-> NoErr]
  ELSE [gvks |-> <<>>, err |-> NotRegistered]

\* the YAML of an object with the given apiVersion and kind: the keys in
\* their order; a typed object always has metadata.creationTimestamp
Yaml(o, v, k) ==
  (IF v = "" THEN <<>> ELSE <<VersionLine>>)
  \o (IF k = "" THEN <<>> ELSE <<KindLine(k)>>)
  \o SelectSeq(FieldLines,
               LAMBDA l : l \in o.fields \/ (o.type = "typed" /\ l = TimestampLine))

\* ...EncoderForVersion(serializer, nil).Encode(o, w): the lines written
Encode(scheme, o) ==
  LET kinds == ObjectKinds(scheme, o)
  IN  IF kinds.err = NotRegistered
      THEN [lines |-> Yaml(o, o.apiVersion, o.kind), err |-> NoErr]
      ELSE IF kinds.err # NoErr THEN [lines |-> <<>>, err |-> kinds.err]
      ELSE [lines |-> Yaml(o, kinds.gvks[1].apiVersion, kinds.gvks[1].kind),
            err |-> NoErr]

InitSerial ==
  /\ ClientIdle /\ ParseIdle /\ ConvIdle /\ ConfigIdle /\ StartIdle
  /\ registry \in Registries
  /\ given \in SeqsUpTo(SerialObjs, MaxObjects)
  /\ sObjects = given
  /\ sOut = <<>>
  /\ sIdx = 0
  /\ sPc = "loop"
  /\ sErr = NoErr
  /\ sLog = <<>>
  /\ sRound = 1
  /\ parsed = <<>>

\* a delimiter after every document instead of before all but the first
WriteDelimiterAlways(out, i) == Append(out, SepLine)

\* if i > 0 { w.Write([]byte("---\n")) }
WriteDelimiter(out, i) == IF i > 0 THEN Append(out, SepLine) ELSE out
LogDelimiter(log, i) ==
  IF i > 0 THEN Append(log, [op |-> "delimiter", idx |-> i + 1, ok |-> TRUE])
  ELSE log

\* err := ....Encode(o, w) for the object of this iteration
Encoded == Encode(registry, sObjects[sIdx + 1])

\* the object encodes: its document is written, the loop goes on
SerialiseEncode ==
  /\ sPc = "loop"
  /\ sIdx < Len(sObjects)
  /\ Encoded.err = NoErr
  /\ sOut' = WriteDelimiter(sOut, sIdx) \o Encoded.lines
  /\ sLog' = Append(LogDelimiter(sLog, sIdx),
                    [op |-> "encode", idx |-> sIdx + 1, ok |-> TRUE])
  /\ sIdx' = sIdx + 1
  /\ UNCHANGED <<registry, given, sObjects, sPc, sErr, sRound, parsed>>
  /\ UNCHANGED <<clientVars, parseVars, convVars, configVars, startVars>>

\* the loop goes on after an object that does not encode
SerialiseEncodeErrorSkips ==
  /\ sPc = "loop"
  /\ sIdx < Len(sObjects)
  /\ Encoded.err # NoErr
  /\ sOut' = WriteDelimiter(sOut, sIdx)
  /\ sLog' = Append(LogDelimiter(sLog, sIdx),
                    [op |-> "encode", idx |-> sIdx + 1, ok |-> FALSE])
  /\ sIdx' = sIdx + 1
  /\ UNCHANGED <<registry, given, sObjects, sPc, sErr, sRound, parsed>>
  /\ UNCHANGED <<clientVars, parseVars, convVars, configVars, startVars>>

\* the object does not encode: return err
SerialiseEncodeError ==
  /\ sPc = "loop"
  /\ sIdx < Len(sObjects)
  /\ Encoded.err # NoErr
  /\ sOut' = WriteDelimiter(sOut, sIdx)
  /\ sLog' = Append(LogDelimiter(sLog, sIdx),
                    [op |-> "encode", idx |-> sIdx + 1, ok |-> FALSE])
  /\ sErr' = Encoded.err
  /\ sPc' = "returned"
  /\ UNCHANGED <<registry, given, sObjects, sIdx, sRound, parsed>>
  /\ UNCHANGED <<clientVars, parseVars, convVars, configVars, startVars>>

\* the range is exhausted: return nil
SerialiseReturn ==
  /\ sPc = "loop"
  /\ sIdx = Len(sObjects)
  /\ sPc' = "returned"
  /\ UNCHANGED <<registry, given, sObjects, sOut, sIdx, sErr, sLog, sRound, parsed>>
  /\ UNCHANGED <<clientVars, parseVars, convVars, configVars, startVars>>

\* o, err := k8s.ParseUnstructured(&d) on the stream just written
ParseBack ==
  /\ sPc = "returned"
  /\ sErr = NoErr
  /\ parsed' = Append(parsed, ParseUnstructured(sOut))
  /\ sPc' = "parsed"
  /\ UNCHANGED <<registry, given, sObjects, sOut, sIdx, sErr, sLog, sRound>>
  /\ UNCHANGED <<clientVars, parseVars, convVars, configVars, startVars>>

\* SerialiseObjects(scheme, w, o...) on the objects parsed back
SerialiseAgain ==
  /\ sPc = "parsed"
  /\ sRound = 1
  /\ parsed[1].err = NoErr
  /\ sObjects' = parsed[1].objects
  /\ sOut' = <<>>
  /\ sIdx' = 0
  /\ sLog' = <<>>
  /\ sRound' = 2
  /\ sPc' = "loop"
  /\ UNCHANGED <<registry, given, sErr, parsed>>
  /\ UNCHANGED <<clientVars, parseVars, convVars, configVars, startVars>>

NextSerial ==
  \/ SerialiseEncode \/ SerialiseEncodeError \/ SerialiseReturn
  \/ ParseBack \/ SerialiseAgain

SpecSerial == InitSerial /\ [][NextSerial]_vars

(***************************************************************************)
(* ToUnstructured(scheme, objects): one action per way an iteration of the *)
(* for loop can go.                                                        *)
(***************************************************************************)
\* the objects the lists are made of
ConvObjs == SerialObjs \ {NilObj}

InitConvert ==
  /\ ClientIdle /\ ParseIdle /\ SerialIdle /\ ConfigIdle /\ StartIdle
  /\ cScheme \in Registries
  /\ cHeap \in SeqsUpTo(ConvObjs, MaxObjects)
  /\ cInput = [i \in 1..Len(cHeap) |-> i]
  /\ cResult = <<>>
  /\ cPc = "loop"
  /\ cRet = Pair(<<>>, TRUE, NoErr)

\* obj of this iteration of for _, obj := range objects
Obj == cHeap[cInput[Len(cResult) + 1]]
\* gvks, _, err := scheme.ObjectKinds(obj)
ObjKinds == ObjectKinds(cScheme, Obj)
NoKindFound == [kind |-> "Unable to find group version kind"]

\* data := ...ToUnstructured(obj); u := &unstructured.Unstructured{Object:
\* data}; u.GetObjectKind().SetGroupVersionKind(gvk)
AsUnstructured(o, gvk) ==
  Unstructured(gvk.apiVersion, gvk.kind, o.fields \cup {TimestampLine})

\* the dynamic object is copied into the result
ConvertDynamicCopies ==
  /\ cPc = "loop"
  /\ Len(cResult) < Len(cInput)
  /\ Obj.type = "unstructured"
  /\ cHeap' = Append(cHeap, Obj)
  /\ cResult' = Append(cResult, Len(cHeap) + 1)
  /\ UNCHANGED <<cScheme, cInput, cPc, cRet>>
  /\ UNCHANGED <<clientVars, parseVars, serialVars, configVars, startVars>>

\* case *unstructured.Unstructured: the pointer itself is appended
ConvertDynamic ==
  /\ cPc = "loop"
  /\ Len(cResult) < Len(cInput)
  /\ Obj.type = "unstructured"
  /\ cResult' = Append(cResult, cInput[Len(cResult) + 1])
  /\ UNCHANGED <<cScheme, cHeap, cInput, cPc, cRet>>
  /\ UNCHANGED <<clientVars, parseVars, serialVars, configVars, startVars>>

\* default: the scheme resolves a kind, a new dynamic object is appended
ConvertTyped ==
  /\ cPc = "loop"
  /\ Len(cResult) < Len(cInput)
  /\ Obj.type = "typed"
  /\ ObjKinds.err = NoErr /\ ObjKinds.gvks # <<>>
  /\ cHeap' = Append(cHeap, AsUnstructured(Obj, ObjKinds.gvks[1]))
  /\ cResult' = Append(cResult, Len(cHeap) + 1)
  /\ UNCHANGED <<cScheme, cInput, cPc, cRet>>
  /\ UNCHANGED <<clientVars, parseVars, serialVars, configVars, startVars>>

\* default: the scheme fails or resolves no kind: return nil, err
ConvertError ==
  /\ cPc = "loop"
  /\ Len(cResult) < Len(cInput)
  /\ Obj.type = "typed"
  /\ ~(ObjKinds.err = NoErr /\ ObjKinds.gvks # <<>>)
  /\ cRet' = Pair(<<>>, TRUE, IF ObjKinds.err # NoErr THEN ObjKinds.err
                               ELSE NoKindFound)
  /\ cPc' = "done"
  /\ UNCHANGED <<cScheme, cHeap, cInput, cResult>>
  /\ UNCHANGED <<clientVars, parseVars, serialVars, configVars, startVars>>

\* the range is exhausted: return unstructuredObjects, nil
ConvertReturn ==
  /\ cPc = "loop"
  /\ Len(cResult) = Len(cInput)
  /\ cRet' = Pair(cResult, FALSE, NoErr)
  /\ cPc' = "done"
  /\ UNCHANGED <<cScheme, cHeap, cInput, cResult>>
  /\ UNCHANGED <<clientVars, parseVars, serialVars, configVars, startVars>>

NextConvert == ConvertDynamic \/ ConvertTyped \/ ConvertError \/ ConvertReturn

SpecConvert == InitConvert /\ [][NextConvert]_vars

(***************************************************************************)
(* KubeConfigPath and ClientConfigBuilder.  A path is the sequence of its  *)
(* segments; "." is the segment filepath.Clean removes.                    *)
(***************************************************************************)
\* filepath.Clean, for paths without ..
Clean(path) ==
  LET kept == SelectSeq(path, LAMBDA seg : seg # ".")
  IN  IF kept = <<>> THEN <<".">> ELSE kept

\* filepath.Join(a, b, c): empty elements are ignored, the result is cleaned
Join(a, b, c) == IF a \o b \o c = <<>> THEN NoPath ELSE Clean(a \o b \o c)

\* the kubeconfig files there may be, by cleaned path
ConfigFiles == {<<"a">>, <<"b">>, <<"h", ".kube", "config">>}
\* what a kubeconfig file may hold: a cluster with or without server URL,
\* a user with or without token
Absent == [exists |-> FALSE, server |-> NoURL, token |-> ""]
Contents ==
  { Absent,
    [exists |-> TRUE, server |-> "https://k8s.tld", token |-> "k8s-token"],
    [exists |-> TRUE, server |-> NoURL, token |-> ""] }
\* the paths a caller passes, and the values of KUBECONFIG
ArgPaths == {NoPath, <<".", "a">>, <<"b">>}
URLs == {"https://forced.tld", "https://default.tld"}

\* _, err := system.DefaultFileSystem.Stat(path): whether err is nil
Stat(files, path) ==
  path # NoPath /\ Clean(path) \in DOMAIN files /\ files[Clean(path)].exists

\* filepath.Join(os.Getenv("HOME"), ".kube", "config")
HomeConfig(e) == Join(e.HOME, <<".kube">>, <<"config">>)

RECURSIVE FirstNonEmpty(_, _)
\* for _, dflt := range ... { if configPath == "" { configPath = dflt } }
FirstNonEmpty(configPath, dflts) ==
  IF dflts = <<>> THEN configPath
  ELSE FirstNonEmpty(IF configPath = NoPath THEN Head(dflts) ELSE configPath,
                     Tail(dflts))

KubeConfigPath(e, files, configPath) ==
  LET chosen == FirstNonEmpty(configPath, <<e.KUBECONFIG, HomeConfig(e)>>)
  IN  IF ~Stat(files, chosen) THEN NoPath ELSE Clean(chosen)

\* clientcmd.NewNonInteractiveDeferredLoadingClientConfig(rules,
\* overrides).ClientConfig() outside a cluster: the file at ExplicitPath, if
\* any, merged with the overrides; a cluster without server is an error
ClientConfig(files, explicitPath, server) ==
  LET file == IF explicitPath = NoPath THEN Absent ELSE files[explicitPath]
      host == IF server # NoURL THEN server ELSE file.server
  IN  IF host = NoURL
      THEN [cfg |-> NilConfig, err |-> [kind |-> "invalid configuration"]]
      ELSE [cfg |-> [Host |-> host, BearerToken |-> file.token], err |-> NoErr]

\* b.populateK8sClientToken(cfg): a token is looked for next to the default
\* kubeconfig when the configuration has no authentication
PopulateK8sClientToken(e, files, readable, cfg) ==
  IF cfg.BearerToken = "" /\ KubeConfigPath(e, files, NoPath) # NoPath /\ readable
  THEN [cfg EXCEPT !.BearerToken = "token-file"]
  ELSE cfg

\* if Server == "" && ExplicitPath == "" && DefaultServerURL != "" {
\*   Server = DefaultServerURL }
DefaultServer(b, path) ==
  IF b.Server = NoURL /\ path = NoPath /\ b.DefaultServerURL # NoURL
  THEN b.DefaultServerURL ELSE b.Server

InitConfig ==
  /\ ClientIdle /\ ParseIdle /\ SerialIdle /\ ConvIdle /\ StartIdle
  \* HOME is a directory that may hold a kubeconfig or one that does not
  /\ env \in [KUBECONFIG : ArgPaths, HOME : {<<"h">>, <<"no-home">>}]
  /\ fs \in [ConfigFiles -> Contents]
  /\ tokenReadable \in BOOLEAN
  /\ builder = [ExplicitPath |-> NoPath, Server |-> NoURL, DefaultServerURL |-> NoURL]
  /\ forced = NoURL
  /\ kLast = NoConfigCall

\* b.ConfigOverrides.ClusterInfo.Server = url
WithServerURL ==
  \E url \in URLs :
    /\ builder' = [builder EXCEPT !.Server = url]
    /\ forced' = url
    /\ kLast' = NoConfigCall
    /\ UNCHANGED <<env, fs, tokenReadable>>
    /\ UNCHANGED <<clientVars, parseVars, serialVars, convVars, startVars>>

\* b.DefaultServerURL = url
WithDefaultServerURL ==
  \E url \in URLs :
    /\ builder' = [builder EXCEPT !.DefaultServerURL = url]
    /\ kLast' = NoConfigCall
    /\ UNCHANGED <<env, fs, tokenReadable, forced>>
    /\ UNCHANGED <<clientVars, parseVars, serialVars, convVars, startVars>>

\* b.ClientConfigLoadingRules.ExplicitPath = path
WithKubeConfigPath ==
  \E path \in ArgPaths :
    /\ builder' = [builder EXCEPT !.ExplicitPath = path]
    /\ kLast' = NoConfigCall
    /\ UNCHANGED <<env, fs, tokenReadable, forced>>
    /\ UNCHANGED <<clientVars, parseVars, serialVars, convVars, startVars>>

\* KubeConfigPath(configPath) called on its own
CallKubeConfigPath ==
  \E configPath \in ArgPaths :
    /\ kLast' = [op |-> "KubeConfigPath", arg |-> configPath,
                 path |-> KubeConfigPath(env, fs, configPath),
                 cfg |-> NilConfig, err |-> NoErr]
    /\ UNCHANGED <<env, fs, tokenReadable, builder, forced>>
    /\ UNCHANGED <<clientVars, parseVars, serialVars, convVars, startVars>>

\* Build(): the rules and overrides the builder points to are updated
Build ==
  LET path == KubeConfigPath(env, fs, builder.ExplicitPath)
      server == DefaultServer(builder, path)
      loaded == ClientConfig(fs, path, server)
  IN  /\ builder' = [builder EXCEPT !.ExplicitPath = path, !.Server = server]
      /\ kLast' = [op |-> "Build", arg |-> builder.ExplicitPath, path |-> path,
                   cfg |-> IF loaded.err # NoErr THEN NilConfig
                           ELSE PopulateK8sClientToken(env, fs, tokenReadable, loaded.cfg),
                   err |-> loaded.err]
      /\ UNCHANGED <<env, fs, tokenReadable, forced>>
      /\ UNCHANGED <<clientVars, parseVars, serialVars, convVars, startVars>>

NextConfig ==
  \/ WithServerURL \/ WithDefaultServerURL \/ WithKubeConfigPath
  \/ CallKubeConfigPath \/ Build

SpecConfig == InitConfig /\ [][NextConfig]_vars

(***************************************************************************)
(* KinD.Start(name, version).  What the file system, the kind binary and   *)
(* the cluster answer is chosen freely at each step.                       *)
(***************************************************************************)
MinPods == 8
MaxPolls == 3

\* KinDCluster.ID(): k.name + "-" + k.version
ID(args) == args.name \o <<"-">> \o args.version

\* KinD.ListClusters(): the clusters, or none when the command fails
ListClusters(clusters, ok) == IF ok THEN clusters ELSE {}

\* what an iteration of the polling loop may observe: Build or
\* k8sclient.New fails, List fails, or List returns `count` pods of which
\* `running` are in phase Running
Observations ==
  {[stage |-> st, count |-> 0, running |-> 0] : st \in {"build", "client", "list"}}
  \cup {[stage |-> "pods", count |-> c, running |-> r] :
          c \in (MinPods - 1)..(MinPods + 1), r \in {0, MinPods - 1, MinPods, MinPods + 1}}

\* the phase of the pods is not looked at
ReadyWhateverPhase(obs) == obs.stage = "pods" /\ obs.count >= MinPods

\* err == nil, len(pods.Items) >= 8 and every p.Status.Phase == "Running"
Ready(obs) ==
  obs.stage = "pods" /\ obs.count >= MinPods /\ obs.running = obs.count

InitStart ==
  /\ ClientIdle /\ ParseIdle /\ SerialIdle /\ ConvIdle /\ ConfigIdle
  /\ stArgs \in [name : {<<"a">>, <<"b">>}, version : {<<"v">>}]
  /\ stBinary \in BOOLEAN
  /\ stClusters \in SUBSET {ID([name |-> n, version |-> <<"v">>]) : n \in {<<"a">>, <<"b">>}}
  /\ stInit = [binary |-> stBinary, clusters |-> stClusters]
  /\ stPc = "start"
  /\ stRet = [handle |-> Handle(NoArgs, TRUE), err |-> NoErr]
  /\ stLog = <<>>

Event(ev, ok, obs) == [ev |-> ev, ok |-> ok, obs |-> obs]
NoObs == [stage |-> "none", count |-> 0, running |-> 0]

\* os.Stat(k.path()) fails: k.Install(); a failed Install may leave a file
StartInstall ==
  /\ stPc = "start"
  /\ ~stBinary
  /\ \E ok, left \in BOOLEAN :
       /\ stLog' = Append(stLog, Event("install", ok, NoObs))
       /\ IF ok
          THEN stBinary' = TRUE /\ stPc' = "exists" /\ UNCHANGED stRet
          ELSE /\ stBinary' = left
               /\ stPc' = "done"
               /\ stRet' = [handle |-> Handle(stArgs, TRUE), err |-> [kind |-> "install"]]
  /\ UNCHANGED <<stClusters, stInit, stArgs>>
  /\ UNCHANGED <<clientVars, parseVars, serialVars, convVars, configVars>>

\* os.Stat(k.path()) succeeds: nothing is installed
StartInstalled ==
  /\ stPc = "start"
  /\ stBinary
  /\ stPc' = "exists"
  /\ UNCHANGED <<stBinary, stClusters, stInit, stArgs, stRet, stLog>>
  /\ UNCHANGED <<clientVars, parseVars, serialVars, convVars, configVars>>

\* cluster.Exists(): no cluster is created
StartExisting ==
  /\ stPc = "exists"
  /\ \E listed \in BOOLEAN : ID(stArgs) \in ListClusters(stClusters, listed)
  /\ stPc' = "download"
  /\ UNCHANGED <<stBinary, stClusters, stInit, stArgs, stRet, stLog>>
  /\ UNCHANGED <<clientVars, parseVars, serialVars, convVars, configVars>>

\* !cluster.Exists(): MkdirAll, then kind create cluster, which fails when
\* the cluster exists
StartCreate ==
  /\ stPc = "exists"
  /\ \E listed \in BOOLEAN : ID(stArgs) \notin ListClusters(stClusters, listed)
  /\ \E did \in {"mkdir fails", "create fails", "created"} :
       /\ did = "created" => ID(stArgs) \notin stClusters
       /\ IF did = "created"
          THEN /\ stClusters' = stClusters \cup {ID(stArgs)}
               /\ stLog' = Append(stLog, Event("create", TRUE, NoObs))
               /\ stPc' = "download"
               /\ UNCHANGED stRet
          ELSE /\ stLog' = IF did = "mkdir fails" THEN stLog
                           ELSE Append(stLog, Event("create", FALSE, NoObs))
               /\ stPc' = "done"
               /\ stRet' = [handle |-> Handle(stArgs, TRUE), err |-> [kind |-> did]]
               /\ UNCHANGED stClusters
  /\ UNCHANGED <<stBinary, stInit, stArgs>>
  /\ UNCHANGED <<clientVars, parseVars, serialVars, convVars, configVars>>

\* err = cluster.DownloadKubeConfig(): on failure return cluster, err
StartDownload ==
  /\ stPc = "download"
  /\ \E ok \in BOOLEAN :
       IF ok THEN stPc' = "poll" /\ UNCHANGED stRet
       ELSE /\ stPc' = "done"
            /\ stRet' = [handle |-> Handle(stArgs, FALSE), err |-> [kind |-> "download"]]
  /\ UNCHANGED <<stBinary, stClusters, stInit, stArgs, stLog>>
  /\ UNCHANGED <<clientVars, parseVars, serialVars, convVars, configVars>>

\* one iteration of for { ... }: return on a failure of Build or of
\* k8sclient.New, break and return cluster, nil when ready, sleep otherwise
StartPoll ==
  /\ stPc = "poll"
  /\ Len(SelectSeq(stLog, LAMBDA e : e.ev = "poll")) < MaxPolls
  /\ \E obs \in Observations :
       /\ obs.running <= obs.count
       /\ stLog' = Append(stLog, Event("poll", Ready(obs), obs))
       /\ IF obs.stage \in {"build", "client"}
          THEN /\ stPc' = "done"
               /\ stRet' = [handle |-> Handle(stArgs, TRUE), err |-> [kind |-> obs.stage]]
          ELSE IF Ready(obs)
          THEN /\ stPc' = "done"
               /\ stRet' = [handle |-> Handle(stArgs, FALSE), err |-> NoErr]
          ELSE UNCHANGED <<stPc, stRet>>
  /\ UNCHANGED <<stBinary, stClusters, stInit, stArgs>>
  /\ UNCHANGED <<clientVars, parseVars, serialVars, convVars, configVars>>

NextStart ==
  \/ StartInstall \/ StartInstalled \/ StartExisting \/ StartCreate
  \/ StartDownload \/ StartPoll

SpecStart == InitStart /\ [][NextStart]_vars

(***************************************************************************)
(* Claims about the read-only client, checked under SpecClient.            *)
(***************************************************************************)
\* the policy in force after construction with the options ms
PolicyInForce(ms) == IF ms = <<>> THEN ReadOnlyError ELSE ms[Len(ms)].assign

\* the last call was made through the client ReadOnlyClient returned, or
\* through a handle it returned
OnClient == last.recv = "client"
OnHandle == last.recv = "handle"
ClientWrite == OnClient /\ last.op \in WriteOps
HandleWrite == OnHandle /\ last.op \in SubWriteOps

\* C1: whatever calls are made on the read-only client and on its handles, no
\* mutating operation of the delegate or of its sub-resource handle is
\* invoked (a call invokes at most the delegate's reads and SubResource, a
\* write call invokes nothing), and the delegate stores what it stored when
\* the client was built, so that List answers as it did then.
C1_DelegateNeverMutated ==
  /\ fakeStore = initStore
  /\ FakeRead(fakeStore, "List", "ns1") = FakeRead(initStore, "List", "ns1")
  /\ (OnClient \/ OnHandle) =>
       \A i \in 1..Len(last.invoked) :
         last.invoked[i].op \in ReadOps \cup IntrospectionOps \cup SubReadOps \cup {"SubResource"}
  /\ (ClientWrite \/ HandleWrite) => last.invoked = <<>>

\* C1 witness: Delete was called through the client on an object the delegate
\* stores, and the delegate still stores it.
C1_Witness ==
  /\ ClientWrite /\ last.op = "Delete"
  /\ roClient.Client = FakeRef
  /\ initStore[last.arg] = "present"
  /\ fakeStore[last.arg] = "present"

\* C2: under the default policy (no option, or WithError last) each of the
\* five writes on the client returns the error "<Op> not allowed in read-only
\* mode", <Op> being the operation called.
C2_DefaultDenialMessage ==
  (ClientWrite /\ (mutators = <<>> \/ mutators = <<WithError>>)) =>
    /\ last.outcome = "returned"
    /\ last.result = [kind |-> "error",
                      msg |-> <<last.op, " not allowed in read-only mode">>]

\* C2 witness: DeleteAllOf was called on a client built with WithError.
C2_Witness ==
  /\ ClientWrite /\ last.op = "DeleteAllOf"
  /\ mutators = <<WithError>>
  /\ last.result.kind = "error"

\* C3 (as claimed): under the default policy each write on a handle fails with
\* the denial message of its own operation name.
C3_HandleDenialNamesOperation ==
  (HandleWrite /\ roClient.newError = ReadOnlyError) =>
    /\ last.outcome = "returned"
    /\ last.result = [kind |-> "error",
                      msg |-> <<last.op, " not allowed in read-only mode">>]

\* C4: with a delegate, a read or introspection call on the client invokes
\* that operation of the delegate once with the same argument and returns
\* what the delegate returns; Get and List on a handle do the same with the
\* delegate's handle for the sub-resource the handle was asked for.
C4_ReadsForwarded ==
  /\ (OnClient /\ last.op \in ReadOps \cup IntrospectionOps /\ roClient.Client = FakeRef) =>
       /\ last.outcome = "returned"
       /\ last.invoked = <<[target |-> FakeRef, op |-> last.op, arg |-> last.arg]>>
       /\ last.result = FakeRead(fakeStore, last.op, last.arg)
  /\ (OnHandle /\ last.op \in SubReadOps /\ roClient.Client = FakeRef) =>
       LET sub == [ref |-> "fake", resource |-> last.handle.resource]
       IN  /\ last.outcome = "returned"
           /\ last.invoked = <<[target |-> sub, op |-> last.op, arg |-> last.arg]>>
           /\ last.result = FakeSubRead(fakeStore, sub, last.op, last.arg)

\* C4 witness: Get through the client returned the delegate's not-found error,
\* and a Get through a status handle is possible next.
C4_Witness ==
  /\ OnClient /\ last.op = "Get"
  /\ roClient.Client = FakeRef
  /\ last.result = NotFound
  /\ \E h \in handles : h.via = "Status"

\* C5: every handle carries the client's policy; handles for one sub-resource
\* name are the same handle whether Status() or SubResource(name) returned
\* them and Status() is the handle of "status"; a write on a handle returns
\* what the policy returns; no call changes the client's policy or a handle
\* already obtained.
C5_PolicyInherited ==
  /\ [](/\ \A h \in handles : h.handle.newError = roClient.newError
        /\ \A h \in handles : h.via = "Status" => h.resource = "status"
        /\ \A h1, h2 \in handles : h1.resource = h2.resource => h1.handle = h2.handle
        /\ HandleWrite =>
             /\ last.handle \in handles
             /\ \E method \in WriteOps :
                  last.result = NewError(last.handle.handle.newError, method))
  /\ [][/\ roClient' = roClient
        /\ handles \subseteq handles']_vars

\* C5 witness: Status() and SubResource("status") were both called on a client
\* built with WithNoError, and Patch was called on one of the handles.
C5_Witness ==
  /\ HandleWrite /\ last.op = "Patch"
  /\ roClient.newError = NilError
  /\ \E h1, h2 \in handles :
       h1.via = "Status" /\ h2.via = "SubResource" /\ h2.resource = "status"

\* C6: on a client built without a delegate the writes on the client return
\* the policy's result for the operation, the writes on its handles return
\* the policy's result, Status() and SubResource(name) return a handle with
\* no delegate, all without touching a delegate, and every read or
\* introspection call on the client or a handle panics.
C6_NoDelegate ==
  (roClient.Client = NilRef) =>
    /\ ClientWrite =>
         /\ last.outcome = "returned"
         /\ last.result = NewError(roClient.newError, last.op)
         /\ last.invoked = <<>>
    /\ HandleWrite =>
         /\ last.outcome = "returned"
         /\ \E method \in WriteOps : last.result = NewError(roClient.newError, method)
         /\ last.invoked = <<>>
    /\ (OnClient /\ last.op \in {"Status", "SubResource"}) =>
         /\ last.outcome = "returned"
         /\ last.result.handle.SubResourceClient = NilRef
         /\ last.invoked = <<>>
    /\ (OnClient /\ last.op \in ReadOps \cup IntrospectionOps) => last.outcome = "panic"
    /\ (OnHandle /\ last.op \in SubReadOps) => last.outcome = "panic"
    /\ \A h \in handles : h.handle.SubResourceClient = NilRef

\* C6 witness: a handle of a client without delegate was asked to Get and
\* panicked.
C6_Witness ==
  /\ roClient.Client = NilRef
  /\ OnHandle /\ last.op = "Get"
  /\ last.outcome = "panic"
  /\ \E h \in handles : h.via = "SubResource" /\ h.resource = "scale"

\* C7: the options are applied in argument order, so the last one is the
\* policy in force; with WithNoError in force every write on the client and
\* on its handles returns no error, invokes nothing on the delegate and
\* leaves the delegate's objects as they were.
C7_NoErrorPolicyAndOrder ==
  /\ roClient.newError = PolicyInForce(mutators)
  /\ \A h \in handles : h.handle.newError = PolicyInForce(mutators)
  /\ ((ClientWrite \/ HandleWrite) /\ PolicyInForce(mutators) = NilError) =>
       /\ last.outcome = "returned"
       /\ last.result = NoError
       /\ last.invoked = <<>>
       /\ fakeStore = initStore

\* C7 witness: the client was built with WithError then WithNoError over a
\* delegate that stores an object, and Create was called on a handle.
C7_Witness ==
  /\ mutators = <<WithError, WithNoError>>
  /\ HandleWrite /\ last.op = "Create"
  /\ roClient.Client = FakeRef
  /\ fakeStore[last.arg] = "present"
  /\ last.result = NoError

(***************************************************************************)
(* Claims about ParseKubernetesObjects, checked under SpecParse.           *)
(***************************************************************************)
\* a chunk without its leading delimiter marker
Payload(chunk) == TrimPrefix(chunk, SepLine)

\* a line that is blank, or a comment once the whitespace around it is trimmed
BlankOrComment(line) ==
  LET trimmed == TrimSpace(line) IN trimmed = <<>> \/ trimmed[1] = "#"

\* a chunk that is empty or made of blank and comment lines only
NotAnObject(chunk) ==
  \A i \in 1..Len(Split(Payload(chunk), LF)) : BlankOrComment(Split(Payload(chunk), LF)[i])

\* the chunks the loop did not skip
NonSkipped == SelectSeq(chunks, LAMBDA c : ~c.skipped)

\* C8 (as claimed): every chunk that is empty or made only of blank lines and
\* of comment lines (a line that starts with # once surrounding whitespace is
\* trimmed) is skipped and nothing is decoded for it; a stream made only of
\* --- lines, blank lines and comment lines parses to no object and no error.
C8_CommentChunksSkipped ==
  /\ \A i \in 1..Len(chunks) : NotAnObject(chunks[i].data) => chunks[i].skipped
  /\ (pc = "done" /\ \A i \in 1..Len(input) :
                       input[i] = SepLine \/ BlankOrComment(input[i])) =>
       /\ ret.err = NoErr
       /\ ret.objects = <<>>
       /\ decoded = <<>>

\* C9 (as claimed): when the stream is read to its end and every chunk that
\* is not skipped decodes, Parse returns without error one object per such
\* chunk, in stream order, the i-th with the apiVersion and kind of the i-th
\* such chunk's document.
C9_OneObjectPerDocumentInOrder ==
  (/\ pc = "done"
   /\ ret.err # YAMLSyntaxError
   /\ \A i \in 1..Len(NonSkipped) :
        Decode(Payload(NonSkipped[i].data), proto).err = NoErr) =>
    /\ ret.err = NoErr
    /\ Len(ret.objects) = Len(NonSkipped)
    /\ \A i \in 1..Len(NonSkipped) :
         LET doc == Decode(Payload(NonSkipped[i].data), proto).obj
         IN  /\ ret.objects[i].kind = doc.kind
             /\ ret.objects[i].apiVersion = doc.apiVersion

\* C10 (as claimed): a chunk that fails to decode is the last one read and
\* the last one decoded; Parse then returns no object and a ParseError whose
\* Data is that chunk's bytes and whose Err is the decoder's error, whatever
\* was decoded before.
C10_DecodeFailureStopsWithChunk ==
  /\ \A i \in 1..Len(decoded) :
       Decode(decoded[i], proto).err # NoErr =>
         /\ i = Len(decoded)
         /\ pc = "done"
         /\ ret.err.kind = "ParseError"
  /\ (pc = "done" /\ ret.err.kind = "ParseError") =>
       /\ ret.objects = <<>>
       /\ ~chunks[Len(chunks)].skipped
       /\ ret.err.Data = Payload(chunks[Len(chunks)].data)
       /\ ret.err.Err = Decode(Payload(chunks[Len(chunks)].data), proto).err
       /\ ret.err.Err # NoErr

\* C11 (as claimed): when a prototype is given, each document is decoded
\* into a fresh copy of the caller's prototype: the target handed to the
\* decoder holds nothing an earlier document produced, the objects produced
\* are pairwise distinct, an object is not changed once produced, and the
\* caller's prototype is never modified.
C11_FreshPrototypePerDocument ==
  proto # NilObj =>
    /\ \A k \in 1..Len(targets) : targets[k] = proto
    /\ \A i, j \in 1..Len(objAddrs) : i # j => objAddrs[i] # objAddrs[j]
    /\ \A i \in 1..Len(objects) : objects[i] = produced[i]
    /\ heap[PrototypeAddr] = proto

\* C19 (as claimed): the bytes handed to the decoder, and those kept in
\* ParseError.Data, are the chunk without its leading --- marker and nothing
\* else, whatever character the payload starts with.
C19_OnlyMarkerRemoved ==
  /\ \A i \in 1..Len(decoded) : decoded[i] = Payload(NonSkipped[i].data)
  /\ (pc = "done" /\ ret.err.kind = "ParseError") =>
       ret.err.Data = Payload(chunks[Len(chunks)].data)

(***************************************************************************)
(* Claims about SerialiseObjects, checked under SpecSerial.                *)
(***************************************************************************)
\* the documents of the objects of the call under way
Documents == [i \in 1..Len(sObjects) |-> Encode(registry, sObjects[i]).lines]
AllEncode == \A i \in 1..Len(sObjects) : Encode(registry, sObjects[i]).err = NoErr
Delimiters == {j \in 1..Len(sOut) : sOut[j] = SepLine}
Failures == {j \in 1..Len(sLog) : sLog[j].op = "encode" /\ ~sLog[j].ok}

\* C12: when every object encodes, what a call has written once it returned
\* is the documents of the objects in input order with one --- line between
\* consecutive documents: n-1 delimiters for n > 0 objects and nothing for
\* none, no delimiter first, no delimiter last.
C12_DelimiterBeforeAllButFirst ==
  (sPc # "loop" /\ AllEncode) =>
    /\ Cardinality(Delimiters) = IF sObjects = <<>> THEN 0 ELSE Len(sObjects) - 1
    /\ sOut # <<>> => sOut[1] # SepLine /\ sOut[Len(sOut)] # SepLine
    /\ sObjects # <<>> => Split(sOut, SepLine) = Documents
    /\ sObjects = <<>> => sOut = <<>>

C12_Witness ==
  /\ sPc = "returned" /\ AllEncode /\ Len(sObjects) = 3
  /\ Cardinality(Delimiters) = 2

\* C17: an object that does not encode is the last thing the call does: the
\* call has returned that object's error, every object before it encoded,
\* and nothing is encoded or written after it; a call that returned returns
\* no error exactly when every object encodes.
C17_StopsAtFirstFailure ==
  /\ \A j \in Failures :
       /\ j = Len(sLog)
       /\ sPc = "returned"
       /\ sErr # NoErr
       /\ sErr = Encode(registry, sObjects[sLog[j].idx]).err
       /\ \A i \in 1..(sLog[j].idx - 1) : Encode(registry, sObjects[i]).err = NoErr
       /\ Split(sOut, SepLine) = SubSeq(Documents, 1, sLog[j].idx - 1) \o <<<<>>>>
            \/ (sLog[j].idx = 1 /\ sOut = <<>>)
  /\ sPc # "loop" => (sErr = NoErr <=> AllEncode)

C17_Witness ==
  /\ sPc = "returned" /\ sErr # NoErr
  /\ Len(sObjects) = 3 /\ sIdx = 1 /\ Len(sOut) > 1

\* the apiVersion and kind of an input of SerialiseObjects: those the
\* registry resolves, or else those the object carries
InputKind(o) ==
  IF ObjectKinds(registry, o).err = NoErr THEN ObjectKinds(registry, o).gvks[1]
  ELSE [apiVersion |-> o.apiVersion, kind |-> o.kind]

\* C13 (as claimed): the stream of a list that SerialiseObjects encoded
\* without error parses as dynamic objects without error into a list of the
\* same length whose i-th element has the apiVersion, kind, name and
\* namespace of the i-th input; serialising the parsed list succeeds and
\* parsing that stream yields the parsed list again.
C13_RoundTrip ==
  /\ (sRound = 1 /\ sPc = "parsed") =>
       /\ parsed[1].err = NoErr
       /\ Len(parsed[1].objects) = Len(given)
       /\ \A i \in 1..Len(given) :
            LET o == parsed[1].objects[i]
            IN  /\ o.type = "unstructured"
                /\ o.apiVersion = InputKind(given[i]).apiVersion
                /\ o.kind = InputKind(given[i]).kind
                /\ (NameLine \in o.fields) = (NameLine \in given[i].fields)
                /\ (NamespaceLine \in o.fields) = (NamespaceLine \in given[i].fields)
  /\ sRound = 2 => sErr = NoErr
  /\ (sRound = 2 /\ sPc = "parsed") => parsed[2] = parsed[1]

(***************************************************************************)
(* Claims about ToUnstructured, checked under SpecConvert.                 *)
(***************************************************************************)
\* the inputs for which the scheme returns an error or no kind
Unresolved ==
  {i \in 1..Len(cInput) :
     /\ cHeap[cInput[i]].type = "typed"
     /\ \/ ObjectKinds(cScheme, cHeap[cInput[i]]).err # NoErr
        \/ ObjectKinds(cScheme, cHeap[cInput[i]]).gvks = <<>>}

Candidates(configPath) == <<configPath, env.KUBECONFIG, HomeConfig(env)>>
Existing(configPath) ==
  {i \in 1..3 : Stat(fs, Candidates(configPath)[i])}
FirstExisting(configPath) ==
  Candidates(configPath)[CHOOSE i \in Existing(configPath) :
                           \A j \in Existing(configPath) : i <= j]

\* C15 (as claimed): KubeConfigPath returns the first of the explicit path,
\* KUBECONFIG and ${HOME}/.kube/config that exists, cleaned, also when an
\* earlier candidate is non-empty and does not exist, and the empty string
\* only when none of the three exists.
C15_FirstExistingPathWins ==
  kLast.op = "KubeConfigPath" =>
    IF Existing(kLast.arg) = {} THEN kLast.path = NoPath
    ELSE kLast.path = Clean(FirstExisting(kLast.arg))

\* no candidate kubeconfig exists for the Build just made
NoKubeConfig == Existing(kLast.arg) = {}
\* neither WithServerURL nor the kubeconfig that exists provides a server
NoServerProvided ==
  /\ forced = NoURL
  /\ Existing(kLast.arg) # {} => fs[Clean(FirstExisting(kLast.arg))].server = NoURL

\* C18 (as claimed): Build uses the URL set by WithDefaultServerURL as the
\* server when no kubeconfig path exists or when no server URL is provided,
\* and never replaces a URL set by WithServerURL.
C18_DefaultServerFallback ==
  kLast.op = "Build" =>
    /\ forced # NoURL =>
         /\ builder.Server = forced
         /\ kLast.err = NoErr /\ kLast.cfg.Host = forced
    /\ (/\ forced = NoURL /\ builder.DefaultServerURL # NoURL
        /\ NoKubeConfig \/ NoServerProvided) =>
         /\ kLast.err = NoErr
         /\ kLast.cfg.Host = builder.DefaultServerURL

(***************************************************************************)
(* Claims about KinD.Start, checked under SpecStart.                       *)
(***************************************************************************)
Polls == {j \in 1..Len(stLog) : stLog[j].ev = "poll"}
\* a poll that saw at least the minimum of pods, all of them Running
Satisfying(obs) ==
  obs.stage = "pods" /\ obs.count >= MinPods /\ obs.running = obs.count

====
